---- MODULE Spec2Model ----
(***************************************************************************)
(* blockdash-api: the ingestion pipeline (UpdateFunctionality) and the     *)
(* projection life cycle of the analytical operations (CentralityLogic,    *)
(* CommunityLogic, CommunityDetection), modelled from the Python sources.  *)
(***************************************************************************)
EXTENDS Integers, Sequences, FiniteSets, Bags, TLC

(***************************************************************************)
(* Bounds of the model.                                                    *)
(***************************************************************************)
\* number of NFT nodes (identifiers 1..NumIds) of the collection
NumIds == 2
\* insert_new_trx_data calls explored by the per-event specification
MaxInserts == 2
\* run_update invocations explored by the ingestion specification
MaxRuns == 2
\* worker threads (request handlers and scheduler jobs) that run operations
NumWorkers == 2
\* operations (requests and scheduler jobs) started in the projection specifications
MaxOps == 2
\* requests to /runCommunity explored by the detection specification
MaxDetections == 1
\* process starts explored by the scheduler specification
MaxStarts == 2
\* hours the clock advances in the scheduler specification
MaxTicks == 2

\* the account addresses that occur in events
Addresses == {"0xA", "0xB", "0xC"}
Identifiers == 1..NumIds
Workers == 1..NumWorkers

\* a property that a node or relationship does not carry
NULL == 0 - 1
NullStr == "null"

\* the wall clock when the model starts (unix seconds)
Now0 == 10 * 86400

(***************************************************************************)
(* State.                                                                  *)
(***************************************************************************)
VARIABLES
    accounts,     \* Account nodes, in creation order: node id = index
    nfts,         \* NFT nodes: node id -> [identifier, collection_name, updated_at]
    owned,        \* OWNED relationships (Account)->(NFT)
    transacted,   \* TRANSACTED relationships (Account)->(Account), a bag
    lastEv,       \* argument of the latest insert_new_trx_data call (<<>>: none yet)
    lastExc,      \* the exception that call raised ("none": it returned)
    inserts,      \* number of insert_new_trx_data calls so far
    ingested,     \* the events the run_update invocations applied, in order
    seedGraph,    \* the accounts and OWNED relationships before any ingestion
    \* run_update / get_data_from_opensea
    collection_name,  \* the tracked collection whose run_update job is modelled
    feed,         \* the event feed: identifier -> sequence of pages of events
    now,          \* wall clock (unix seconds)
    runs,         \* run_update invocations started so far
    pc,           \* position of the run_update invocation
    T,            \* current_unix_timestamp of the invocation
    ids_list,     \* idList_info: sequence of [id, updated_at]
    idx,          \* position of the for loop in ids_list
    result,       \* local `result` of get_data_from_opensea (<<>>: unbound)
    status_code,  \* local `status_code` (<<>>: unbound)
    calls,        \* feed requests of the invocation: [id, after, till, cursor, outcome]
    lastUpdateAt, \* redis key lastUpdateAt (<<>>: not set)
    cacheKeys,    \* keys of the redis cache
    \* projections of the Graph Data Science library and the operations using them
    directory,    \* gds.graph.list(): set of [name, creator]; creator <<w>> is the
                  \* worker whose operation in flight created it, <<>> a finished one
    wop,          \* worker -> the operation it executes: [kind, collection]
    wpc,          \* worker -> position in the operation
    wstep,        \* worker -> index of the projection the position is about
    cleaned,      \* worker -> it dropped a listed projection of one of its own names
    ops,          \* operations started so far
    todrop,       \* worker -> names it still drops before creating
    werr,         \* worker -> how the operation ended ("none" while in flight)
    foreign,      \* worker -> it ran on or dropped a projection of another
                  \* operation in flight
    \* community detection
    community_info,  \* the Community_Info node: processed collection name ->
                     \* {name}_id_list, one list of community ids per scope
    wres,         \* worker -> records of community_result not yet processed
    wids,         \* worker -> local list community_id of the scope
    wcoms,        \* worker -> the communities Louvain found for the scope
    wprev,        \* worker -> community_info when its operation started
    \* get_single_community
    wlabel,       \* worker -> the scope label of its request (<<>>: none)
    wscope,       \* worker -> scope_processed (<<>>: not computed)
    \* the scheduler and the stored update frequencies
    update_info,  \* Update_Info nodes: processed collection name -> update_frequency
    running,      \* scheduler.running
    jobs,         \* the job store: [id, func, seconds, args, next_run_time]
    lastFreq,     \* request and reply of the latest get_update_frequency (<<>>: none)
    starts,       \* processes started so far
    \* a second run_update invocation
    parked        \* the locals of the run_update invocation that is not stepping

graphVars == <<accounts, nfts, owned, transacted>>
insertVars == <<lastEv, lastExc, inserts, ingested, seedGraph>>
updateVars == <<collection_name, feed, now, runs, pc, T, ids_list, idx, result,
                status_code, calls, lastUpdateAt, cacheKeys>>
scopeVars == <<wlabel, wscope>>
detectVars == <<community_info, wres, wids, wcoms, wprev, scopeVars>>
projVars == <<directory, wop, wpc, wstep, cleaned, todrop, werr, foreign, ops,
              detectVars>>
schedVars == <<update_info, running, jobs, lastFreq, starts>>
vars == <<graphVars, insertVars, updateVars, projVars, schedVars, parked>>

(***************************************************************************)
(* insert_new_trx_data (update_functionality.py:109-211).                  *)
(***************************************************************************)
mock_data == <<1, 2, 3>>

\* the node pattern of query0's MERGE clauses
MockAccount(address) ==
    [address |-> address,
     boredapeyachtclub_com_id_list |-> mock_data,
     complete_com_id_list |-> mock_data,
     degods_com_id_list |-> mock_data]

\* MERGE (x:Account {address: .., *_com_id_list: $mock_data}): a node is matched
\* only when all four properties are equal, otherwise a node is created
MergeAccount(accs, address) ==
    IF \E i \in DOMAIN accs : accs[i] = MockAccount(address)
    THEN accs
    ELSE Append(accs, MockAccount(address))

Query0(accs, data) ==
    MergeAccount(MergeAccount(accs, data.to_address), data.from_address)

\* MATCH (x:Account {address: $address})
AccountNodes(accs, address) == {i \in DOMAIN accs : accs[i].address = address}

\* MATCH (nft:NFT {identifier: $identifier, collection_name: $collection_name})
NftNodes(ns, identifier, name) ==
    {n \in DOMAIN ns : ns[n].identifier = identifier
                       /\ ns[n].collection_name = name}

HasOwned(ow, a, n) == \E e \in ow : e.account = a /\ e.nft = n

\* MERGE (from_address)-[ro:OWNED]->(nft)
\*   ON CREATE / ON MATCH SET ro.currently_owned = false, ro.until = $from_until
CloseFrom(ow, pairs, ts) ==
    {IF <<e.account, e.nft>> \in pairs
        THEN [e EXCEPT !.currently_owned = FALSE, !.until = ts]
        ELSE e : e \in ow}
    \cup {[account |-> p[1], nft |-> p[2], currently_owned |-> FALSE,
           from |-> NULL, until |-> ts] : p \in {q \in pairs : ~HasOwned(ow, q[1], q[2])}}

\* MERGE (to_address)-[r:OWNED]->(nft)
\*   ON CREATE / ON MATCH SET r.currently_owned = true, r.from = $time_stamp, r.until = 0
OpenTo(ow, pairs, ts) ==
    {IF <<e.account, e.nft>> \in pairs
        THEN [e EXCEPT !.currently_owned = TRUE, !.from = ts, !.until = 0]
        ELSE e : e \in ow}
    \cup {[account |-> p[1], nft |-> p[2], currently_owned |-> TRUE,
           from |-> ts, until |-> 0] : p \in {q \in pairs : ~HasOwned(ow, q[1], q[2])}}

\* query1: the second MATCH/MERGE runs once per row of the first, so not at all
\* when the NFT node does not exist
Query1(accs, ns, ow, data) ==
    LET nodes == NftNodes(ns, data.nft.identifier, data.nft.collection)
        rowsFrom == AccountNodes(accs, data.from_address) \X nodes
        rowsTo == AccountNodes(accs, data.to_address) \X nodes
    IN  IF rowsFrom = {} THEN ow
        ELSE OpenTo(CloseFrom(ow, rowsFrom, data.event_timestamp),
                    rowsTo, data.event_timestamp)

\* the keys of a payment that the parameters of query2_sale are built from
PaymentKeys == {"quantity", "symbol", "decimals", "token_address"}

\* data['payment'] of a sale and data['payment'][key] of a payment that is not
\* None raise KeyError when the key is missing (lines 188, 194-197)
PaymentRaises(data) ==
    /\ data.event_type # "transfer"
    /\ \/ "payment" \notin DOMAIN data
       \/ /\ data.payment # <<>>
          /\ ~(PaymentKeys \subseteq DOMAIN data.payment[1])

\* how insert_new_trx_data(data) ends
InsertOutcome(data) == IF PaymentRaises(data) THEN "KeyError" ELSE "none"

\* the properties of the TRANSACTED relationship of one event
TrxProps(data) ==
    IF data.event_type = "transfer"
    THEN [event_type |-> "Transfer",
          transaction_value |-> NULL,
          transaction_token_symbol |-> NullStr,
          transaction_token_decimals |-> NullStr,
          transaction_token |-> NullStr]
    ELSE IF PaymentRaises(data)
    THEN [event_type |-> "Sale and Transfer",
          transaction_value |-> NULL,
          transaction_token_symbol |-> NullStr,
          transaction_token_decimals |-> NullStr,
          transaction_token |-> NullStr]
    ELSE IF data.payment # <<>>
    THEN [event_type |-> "Sale and Transfer",
          transaction_value |-> data.payment[1].quantity,
          transaction_token_symbol |-> data.payment[1].symbol,
          transaction_token_decimals |-> data.payment[1].decimals,
          transaction_token |-> data.payment[1].token_address]
    ELSE [event_type |-> "Sale and Transfer",
          transaction_value |-> 0,
          transaction_token_symbol |-> "unknown",
          transaction_token_decimals |-> "unknown",
          transaction_token |-> "unknown"]

TrxEdge(src, dst, data) ==
    LET p == TrxProps(data)
    IN  [src |-> src, dst |-> dst,
         event_type |-> p.event_type,
         collection_name |-> data.nft.collection,
         transaction_hash |-> data.transaction,
         transaction_timestamp |-> data.event_timestamp,
         identifier |-> data.nft.identifier,
         transaction_value |-> p.transaction_value,
         transaction_token_symbol |-> p.transaction_token_symbol,
         transaction_token_decimals |-> p.transaction_token_decimals,
         transaction_token |-> p.transaction_token]

\* query2_transfer / query2_sale: MATCH (from),(to) CREATE (from)-[:TRANSACTED {..}]->(to)
Query2(accs, trx, data) ==
    trx (+) SetToBag({TrxEdge(p[1], p[2], data) :
                        p \in AccountNodes(accs, data.from_address)
                              \X AccountNodes(accs, data.to_address)})

\* the graph after insert_new_trx_data(data): query0 and query1 have run when
\* the parameters of query2_sale are built, so a KeyError there leaves their
\* writes and creates no TRANSACTED relationship
InsertNewTrxData(G, data) ==
    LET accs == Query0(G.accounts, data)
    IN  [accounts |-> accs,
         nfts |-> G.nfts,
         owned |-> Query1(accs, G.nfts, G.owned, data),
         transacted |-> IF PaymentRaises(data) THEN G.transacted
                        ELSE Query2(accs, G.transacted, data)]

Graph == [accounts |-> accounts, nfts |-> nfts, owned |-> owned,
          transacted |-> transacted]

SetGraph(G) ==
    /\ accounts' = G.accounts
    /\ nfts' = G.nfts
    /\ owned' = G.owned
    /\ transacted' = G.transacted

(***************************************************************************)
(* The feed (query_api.query_nft_trx_data) and the events it holds.        *)
(***************************************************************************)
Payment == [quantity |-> 5, symbol |-> "ETH", decimals |-> "18",
            token_address |-> "0x0"]

\* the transactions of the feed: hash -> event type, block time and payment
\* (payment <<>> is a null payment)
Tx1 == [transaction |-> "0xh1", event_type |-> "transfer", event_timestamp |-> 10,
        payment |-> <<>>]
Tx2 == [transaction |-> "0xh2", event_type |-> "sale", event_timestamp |-> 20,
        payment |-> <<Payment>>]
Tx3 == [transaction |-> "0xh3", event_type |-> "sale", event_timestamp |-> 30,
        payment |-> <<>>]
\* a sale whose record has no key 'payment', and one whose payment has no 'symbol'
Tx4 == [transaction |-> "0xh4", event_type |-> "sale", event_timestamp |-> 40]
Tx5 == [transaction |-> "0xh5", event_type |-> "sale", event_timestamp |-> 50,
        payment |-> <<[quantity |-> 5, decimals |-> "18", token_address |-> "0x0"]>>]
Transactions == {Tx1, Tx2, Tx3, Tx4, Tx5}

\* an event record of the feed, as insert_new_trx_data reads it
Event(tx, from_address, to_address, identifier, collection) ==
    IF "payment" \in DOMAIN tx
    THEN [event_type |-> tx.event_type,
          from_address |-> from_address,
          to_address |-> to_address,
          transaction |-> tx.transaction,
          nft |-> [identifier |-> identifier, collection |-> collection],
          event_timestamp |-> tx.event_timestamp,
          payment |-> tx.payment]
    ELSE [event_type |-> tx.event_type,
          from_address |-> from_address,
          to_address |-> to_address,
          transaction |-> tx.transaction,
          nft |-> [identifier |-> identifier, collection |-> collection],
          event_timestamp |-> tx.event_timestamp]

\* the tracked collections (the slugs the scheduler passes to run_update)
ApeSlug == "boredapeyachtclub"
DegodsSlug == "degods-eth"
TrackedCollections == {ApeSlug, DegodsSlug}

\* the events insert_new_trx_data is called with in the per-event specification
EventSet ==
    {Event(tx, f, t, i, ApeSlug) :
        tx \in Transactions, f \in Addresses, t \in Addresses, i \in Identifiers}

\* the pages the feed holds for one identifier: an empty page; one page with an
\* event; two pages with events; an empty first page followed by a page with an
\* event; one page with a sale without payment followed by another event
FeedShapes(i, slug) ==
    LET e1 == Event(Tx1, "0xA", "0xB", i, slug)
        e2 == Event(Tx2, "0xB", "0xC", i, slug)
        e3 == Event(Tx3, "0xC", "0xA", i, slug)
        e4 == Event(Tx4, "0xC", "0xA", i, slug)
    IN  { << <<>> >>,
          << <<e1>> >>,
          << <<e1, e2>>, <<e3>> >>,
          << <<>>, <<e1>> >>,
          << <<e4, e1>> >> }

\* the response body of page k of identifier i: `next` is <<>> for "" and <<k+1>>
\* for the cursor of the following page
PageBody(pages, k) ==
    [kind |-> "events",
     asset_events |-> pages[k],
     next |-> IF k < Len(pages) THEN <<k + 1>> ELSE <<>>]

\* a non-200 response body: JSON without the keys asset_events and next
ErrorBody == [kind |-> "errors", asset_events |-> <<>>, next |-> <<>>]

\* outcomes of one query_nft_trx_data call: a 200 page, an exception raised by
\* requests.get / response.json(), or a non-200 JSON error body
FeedOutcomes == {"ok", "raise", "errjson"}

(***************************************************************************)
(* run_update and get_data_from_opensea (update_functionality.py:47-283).  *)
(***************************************************************************)
get_processed_collection_name(name) ==
    IF name = "degods-eth" THEN "degods"
    ELSE IF name = "boredapeyachtclub" THEN "boredapeyachtclub"
    ELSE IF name = "complete" THEN "complete"
    ELSE name

\* get_identifier_id_list: the NFT nodes whose collection_name is the processed name
get_identifier_id_list(ns, name) ==
    LET Match(n) == n.collection_name = get_processed_collection_name(name)
        sel == SelectSeq(ns, Match)
    IN  [k \in 1..Len(sel) |-> [id |-> sel[k].identifier, updated_at |-> sel[k].updated_at]]

\* the staleness gate of get_data_from_opensea
IsDue(current_time_unix, last_updated_unix) ==
    (current_time_unix - last_updated_unix) >= (2 * 86400)

\* update_nft_node: matches on the collection name as passed to run_update
update_nft_node(ns, name, identifier, updated_at) ==
    [n \in DOMAIN ns |->
        IF ns[n].collection_name = name /\ ns[n].identifier = identifier
        THEN [ns[n] EXCEPT !.updated_at = updated_at]
        ELSE ns[n]]

\* for one in result['asset_events']: self.insert_new_trx_data(one)
RECURSIVE ApplyEvents(_, _)
ApplyEvents(G, evs) ==
    IF evs = <<>> THEN G
    ELSE ApplyEvents(InsertNewTrxData(G, Head(evs)), Tail(evs))

\* the position of the first event of the page whose insert raises (0: none)
FirstRaising(evs) ==
    IF \E k \in DOMAIN evs : PaymentRaises(evs[k])
    THEN CHOOSE k \in DOMAIN evs :
            /\ PaymentRaises(evs[k])
            /\ \A j \in 1..(k - 1) : ~PaymentRaises(evs[j])
    ELSE 0

\* the events of the page insert_new_trx_data is called with: an exception leaves
\* the for loop over result['asset_events']
Called(evs) ==
    IF FirstRaising(evs) = 0 THEN evs ELSE SubSeq(evs, 1, FirstRaising(evs))

\* the events of the page whose insert returned
Returned(evs) ==
    IF FirstRaising(evs) = 0 THEN evs ELSE SubSeq(evs, 1, FirstRaising(evs) - 1)

InsertAll(evs) ==
    /\ SetGraph(ApplyEvents(Graph, Called(evs)))
    /\ lastEv' = IF evs = <<>> THEN lastEv ELSE <<Called(evs)[Len(Called(evs))]>>
    /\ lastExc' = IF evs = <<>> THEN lastExc
                  ELSE InsertOutcome(Called(evs)[Len(Called(evs))])
    /\ inserts' = inserts + Len(Called(evs))
    /\ ingested' = ingested \o Returned(evs)
    /\ UNCHANGED seedGraph

\* delete_cache_keys(prefix + ":*"): keys are sequences of their ':' segments
KeyMatches(prefix, key) ==
    /\ Len(key) > Len(prefix)
    /\ SubSeq(key, 1, Len(prefix)) = prefix

delete_cache_keys(keys, prefix) == {k \in keys : ~KeyMatches(prefix, k)}

\* the entity the for loop is at
CurId == ids_list[idx].id
CurUpdated == ids_list[idx].updated_at

Call(cursor, outcome) ==
    [id |-> CurId, after |-> CurUpdated, till |-> T, cursor |-> cursor,
     outcome |-> outcome]

\* run_update up to the call of get_data_from_opensea (lines 58-77): the lookup
\* of the Update_Info node and the enumeration of the NFT nodes are outside the
\* try statement, so a db.run_query that raises (or an empty lookup result,
\* result[0]) leaves run_update with the exception
RunUpdateStart ==
    /\ pc = "idle"
    /\ runs < MaxRuns
    /\ runs' = runs + 1
    /\ T' = now
    /\ idx' = 1
    /\ result' = <<>>
    /\ status_code' = <<>>
    /\ calls' = {}
    /\ \/ /\ ids_list' = get_identifier_id_list(nfts, collection_name)
          /\ pc' = "for"
       \/ /\ ids_list' = <<>>
          /\ pc' = "raised"
    /\ UNCHANGED <<projVars, schedVars, parked>>
    /\ UNCHANGED <<graphVars, insertVars, collection_name, feed, now, lastUpdateAt,
                   cacheKeys>>

\* for id_info in ids_list: the staleness gate; the else branch only logs
ForNext ==
    /\ pc = "for"
    /\ IF idx > Len(ids_list)
       THEN pc' = "end" /\ idx' = idx
       ELSE IF IsDue(T, CurUpdated)
       THEN pc' = "first" /\ idx' = idx
       ELSE pc' = "for" /\ idx' = idx + 1
    /\ UNCHANGED <<projVars, schedVars, parked>>
    /\ UNCHANGED <<graphVars, insertVars, collection_name, feed, now, runs, T,
                   ids_list, result, status_code, calls, lastUpdateAt, cacheKeys>>

\* the first query of an entity (lines 234-244): a non-empty page is applied and
\* then `break` leaves the for loop; an exception (of the request or of an
\* insert) is logged and execution goes on to the while statement
FirstPage ==
    /\ pc = "first"
    /\ \E outcome \in FeedOutcomes :
        /\ calls' = calls \cup {Call(<<>>, outcome)}
        /\ \/ /\ outcome = "ok"
              /\ LET body == PageBody(feed[CurId], 1)
                 IN  /\ result' = <<body>>
                     /\ status_code' = <<200>>
                     /\ InsertAll(body.asset_events)
                     /\ pc' = IF Len(body.asset_events) # 0
                                 /\ FirstRaising(body.asset_events) = 0
                              THEN "end" ELSE "while"
           \/ /\ outcome = "raise"
              /\ UNCHANGED <<result, status_code, graphVars, insertVars>>
              /\ pc' = "while"
           \/ /\ outcome = "errjson"
              /\ result' = <<ErrorBody>>
              /\ status_code' = <<500>>
              /\ UNCHANGED <<graphVars, insertVars>>
              /\ pc' = "while"
    /\ UNCHANGED <<projVars, schedVars, parked>>
    /\ UNCHANGED <<collection_name, feed, now, runs, T, ids_list, idx, lastUpdateAt,
                   cacheKeys>>

\* while result['next'] != "": evaluated outside any try, so an unbound `result`
\* (UnboundLocalError) or a body without the key (KeyError) leaves
\* get_data_from_opensea and is caught in run_update
WhileTest ==
    /\ pc = "while"
    /\ pc' = IF result = <<>> THEN "end"
             ELSE IF result[1].kind # "events" THEN "end"
             ELSE IF result[1].next # <<>> THEN "page"
             ELSE "mark"
    /\ UNCHANGED <<projVars, schedVars, parked>>
    /\ UNCHANGED <<graphVars, insertVars, collection_name, feed, now, runs, T,
                   ids_list, idx, result, status_code, calls, lastUpdateAt, cacheKeys>>

\* the query of the while body (lines 247-257) with cursor = result['next']
NextPage ==
    /\ pc = "page"
    /\ \E outcome \in FeedOutcomes :
        /\ calls' = calls \cup {Call(result[1].next, outcome)}
        /\ \/ /\ outcome = "ok"
              /\ LET body == PageBody(feed[CurId], result[1].next[1])
                 IN  /\ result' = <<body>>
                     /\ status_code' = <<200>>
                     /\ InsertAll(body.asset_events)
           \/ /\ outcome = "raise"
              /\ UNCHANGED <<result, status_code, graphVars, insertVars>>
           \/ /\ outcome = "errjson"
              /\ result' = <<ErrorBody>>
              /\ status_code' = <<500>>
              /\ UNCHANGED <<graphVars, insertVars>>
    /\ pc' = "while"
    /\ UNCHANGED <<projVars, schedVars, parked>>
    /\ UNCHANGED <<collection_name, feed, now, runs, T, ids_list, idx, lastUpdateAt,
                   cacheKeys>>

\* if status_code == 200: self.update_nft_node(collection_name, id, current_time_unix)
MarkUpdated ==
    /\ pc = "mark"
    /\ IF status_code = <<200>>
       THEN nfts' = update_nft_node(nfts, collection_name, CurId, T)
       ELSE nfts' = nfts
    /\ idx' = idx + 1
    /\ pc' = "for"
    /\ UNCHANGED <<projVars, schedVars, parked>>
    /\ UNCHANGED <<accounts, owned, transacted, insertVars, collection_name, feed,
                   now, runs, T, ids_list, result, status_code, calls, lastUpdateAt,
                   cacheKeys>>

\* the end of run_update (lines 80-83): saveUpdateTimeToRedis, delete_cache_keys
\* both talk to redis and are outside any try statement
RunUpdateEnd ==
    /\ pc = "end"
    /\ \/ /\ lastUpdateAt' = <<now>>
          /\ cacheKeys' = delete_cache_keys(cacheKeys, <<"application-cache">>)
          /\ pc' = "done"
       \/ /\ lastUpdateAt' = <<now>>
          /\ UNCHANGED cacheKeys
          /\ pc' = "raised"
       \/ /\ UNCHANGED <<lastUpdateAt, cacheKeys>>
          /\ pc' = "raised"
    /\ UNCHANGED <<projVars, schedVars, parked>>
    /\ UNCHANGED <<graphVars, insertVars, collection_name, feed, now, runs, T,
                   ids_list, idx, result, status_code, calls>>

\* the interval trigger of the scheduler fires again after the stored frequency
\* (86000 s when none is stored) or later
RunGaps == {86000, 2 * 86400}

NextTrigger ==
    /\ pc \in {"done", "raised"}
    /\ runs < MaxRuns
    /\ \E gap \in RunGaps : now' = now + gap
    /\ pc' = "idle"
    /\ UNCHANGED <<projVars, schedVars, parked>>
    /\ UNCHANGED <<graphVars, insertVars, collection_name, feed, runs, T, ids_list,
                   idx, result, status_code, calls, lastUpdateAt, cacheKeys>>

(***************************************************************************)
(* Projections: get_most_central_nodes (centrality_functionality.py),      *)
(* get_single_community (community_functionality.py) and                  *)
(* run_community_detection (community_detection.py).  Each db.run_query of *)
(* an operation is one step, and a step of one worker may be followed by a *)
(* step of another.                                                        *)
(***************************************************************************)
\* the collections the scheduler runs community detection for
DetectionCollections == {"boredapeyachtclub", "degods-eth", "complete"}

\* the operations a worker may execute
\* the limit the scheduler passes to run_community_detection
SchedulerLimit == 100

Operations ==
    {[kind |-> "centrality", collection |-> "-", limit |-> 0],
     [kind |-> "single", collection |-> "-", limit |-> 0]}
    \cup {[kind |-> "detection", collection |-> c, limit |-> SchedulerLimit] :
            c \in DetectionCollections}

NoOperation == [kind |-> "none", collection |-> "-", limit |-> 0]

\* the projection names of an operation, in the order it creates them;
\* <<c, "owned">> stands for the name '{c}_owned'
OpNames(op) ==
    IF op.kind = "centrality" THEN << <<"centralityGraph">> >>
    ELSE IF op.kind = "single" THEN << <<"tempGraph">> >>
    ELSE << <<op.collection, "owned">>, <<op.collection, "trx">>,
            <<op.collection, "owned_trx">> >>

ProjNames == UNION {{OpNames(op)[k] : k \in DOMAIN OpNames(op)} : op \in Operations}

\* the projection catalogue of the graph store
GdsNames(dir) == {g.name : g \in dir}
GdsExists(dir, name) == name \in GdsNames(dir)
\* a projection holds the nodes that exist when it is created; Account nodes are
\* only ever added, so their number stands for the set
GdsCreate(dir, name, w) ==
    dir \cup {[name |-> name, creator |-> <<w>>, accounts |-> Len(accounts)]}
GdsDrop(dir, name) == {g \in dir : g.name # name}
CreatorOf(dir, name) == (CHOOSE g \in dir : g.name = name).creator

\* the projection exists and was created by another operation still in flight
Foreign(dir, name, w) ==
    GdsExists(dir, name) /\ CreatorOf(dir, name) \notin {<<>>, <<w>>}

\* a cleanup that drops nothing of what was listed
NamesToDropNothing(op, graph_names) == {}

\* what an operation drops after listing: `if 'centralityGraph' in graph_names`
\* (`'tempGraph'`), and for detection `for graph in graph_names`
NamesToDrop(op, graph_names) ==
    IF op.kind = "detection" THEN graph_names
    ELSE graph_names \cap {OpNames(op)[1]}

\* get_single_community counts the community's nodes before it creates
AfterCleanup(op) == IF op.kind = "single" THEN "count" ELSE "create"

(***************************************************************************)
(* Community detection: update_community_detection and the writes of       *)
(* update_nodes_com_property and update_community_id_info                  *)
(* (community_detection.py:134-155, 272-390).                              *)
(***************************************************************************)
\* the property {name}_com_id_list of a node, name the processed collection name
ComIdList(node, name) ==
    IF name = "boredapeyachtclub" THEN node.boredapeyachtclub_com_id_list
    ELSE IF name = "degods" THEN node.degods_com_id_list
    ELSE node.complete_com_id_list

SetComIdList(node, name, value) ==
    IF name = "boredapeyachtclub" THEN [node EXCEPT !.boredapeyachtclub_com_id_list = value]
    ELSE IF name = "degods" THEN [node EXCEPT !.degods_com_id_list = value]
    ELSE [node EXCEPT !.complete_com_id_list = value]

\* a membership array with every slot set to the community id
EverySlot(node, collection, communityId, scope) ==
    SetComIdList(node, get_processed_collection_name(collection),
                 <<communityId, communityId, communityId>>)

\* update_nodes_com_property for one node: original_value[scope] = communityId,
\* written back as the whole property (Python index scope = position scope + 1)
update_nodes_com_property(node, collection, communityId, scope) ==
    LET name == get_processed_collection_name(collection)
    IN  SetComIdList(node, name, [ComIdList(node, name) EXCEPT ![scope + 1] = communityId])

RECURSIVE Ascending(_)
Ascending(S) ==
    IF S = {} THEN <<>>
    ELSE LET m == CHOOSE x \in S : \A y \in S : x <= y
         IN  <<m>> \o Ascending(S \ {m})

\* the NFT nodes a projection of the collection takes: all of them for
\* 'complete', else those whose collection_name is the name as passed
ProjNfts(collection) ==
    IF collection = "complete" THEN DOMAIN nfts
    ELSE {n \in DOMAIN nfts : nfts[n].collection_name = collection}

\* the nodes of projection k of the collection (1 owned, 2 trx, 3 owned_trx) that
\* was created when there were m Account nodes: NFT nodes first, then accounts
ProjNodeSeq(collection, k, m) ==
    LET ns == IF k = 2 THEN <<>> ELSE Ascending(ProjNfts(collection))
    IN  [i \in 1..(Len(ns) + m) |->
            IF i <= Len(ns) THEN [label |-> "NFT", id |-> ns[i]]
            ELSE [label |-> "Account", id |-> i - Len(ns)]]

\* results of gds.louvain.stream over the nodes, grouped by communityId: the
\* first j nodes form one community and every other node one of its own
LouvainOutcomes(nodeSeq) ==
    IF nodeSeq = <<>> THEN {{}}
    ELSE {{[communityId |-> 11, nodeList |-> {nodeSeq[i] : i \in 1..j}]}
          \cup {[communityId |-> 10 + i, nodeList |-> {nodeSeq[i]}] :
                    i \in (j + 1)..Len(nodeSeq)} : j \in 1..Len(nodeSeq)}

\* ORDER BY size(nodes) DESC leaves the order of equal sizes to the store
TieOrders == {"asc", "desc"}

Before(c, d, tie) ==
    \/ Cardinality(c.nodeList) > Cardinality(d.nodeList)
    \/ /\ Cardinality(c.nodeList) = Cardinality(d.nodeList)
       /\ IF tie = "asc" THEN c.communityId <= d.communityId
          ELSE c.communityId >= d.communityId

RECURSIVE OrderBySize(_, _)
OrderBySize(coms, tie) ==
    IF coms = {} THEN <<>>
    ELSE LET c == CHOOSE x \in coms : \A y \in coms : Before(x, y, tie)
         IN  <<c>> \o OrderBySize(coms \ {c}, tie)

\* rows returned without any LIMIT clause
AllRows(rows, limit) == rows

\* if limit != 0: com_query += f" LIMIT {limit}"
LimitRows(rows, limit) ==
    IF limit # 0
    THEN SubSeq(rows, 1, IF limit < Len(rows) THEN limit ELSE Len(rows))
    ELSE rows

\* build_community_info_node: the same serialized array for every collection
SeedCommunityInfo ==
    [c \in {"boredapeyachtclub", "degods", "complete"} |->
        << <<1, 2>>, <<3, 4>>, <<5, 6>>, <<7, 8>> >>]

\* the limits of requests to /runCommunity
Limits == {0, 1, 2}

DetectionRequests ==
    {[kind |-> "detection", collection |-> c, limit |-> k] :
        c \in DetectionCollections, k \in Limits}

(***************************************************************************)
(* get_scope (community_functionality.py:192-213).  Labels are sequences   *)
(* of characters.                                                          *)
(***************************************************************************)
LowerCase == <<"a", "b", "c", "d", "e", "f", "g", "h", "i", "j", "k", "l", "m", "n", "o", "p", "q", "r", "s", "t", "u", "v", "w", "x", "y", "z">>
UpperCase == <<"A", "B", "C", "D", "E", "F", "G", "H", "I", "J", "K", "L", "M", "N", "O", "P", "Q", "R", "S", "T", "U", "V", "W", "X", "Y", "Z">>

\* str.upper() on the characters that occur
upper(scope) ==
    [i \in DOMAIN scope |->
        IF \E k \in DOMAIN LowerCase : LowerCase[k] = scope[i]
        THEN UpperCase[CHOOSE k \in DOMAIN LowerCase : LowerCase[k] = scope[i]]
        ELSE scope[i]]

\* a comparison of the label as it is passed
get_scope_as_passed(scope) ==
    IF scope = <<"O", "W", "N", "E", "R", "S", "H", "I", "P">> THEN <<0>>
    ELSE IF scope = <<"T", "R", "A", "N", "S", "A", "C", "T", "I", "O", "N">> THEN <<1>>
    ELSE IF scope = <<"A", "L", "L">> THEN <<2>>
    ELSE <<>>

\* <<index>> for the value returned, <<>> for NotExistsException
get_scope(scope) ==
    IF upper(scope) = <<"O", "W", "N", "E", "R", "S", "H", "I", "P">> THEN <<0>>
    ELSE IF upper(scope) = <<"T", "R", "A", "N", "S", "A", "C", "T", "I", "O", "N">> THEN <<1>>
    ELSE IF upper(scope) = <<"A", "L", "L">> THEN <<2>>
    ELSE <<>>

\* the scope labels of requests
ScopeLabels ==
    {<<"o", "w", "n", "e", "r", "s", "h", "i", "p">>,
     <<"O", "W", "N", "E", "R", "S", "H", "I", "P">>,
     <<"O", "w", "n", "e", "r", "s", "h", "i", "p">>,
     <<"t", "r", "a", "n", "s", "a", "c", "t", "i", "o", "n">>,
     <<"T", "R", "A", "N", "S", "A", "C", "T", "I", "O", "N">>,
     <<"t", "R", "a", "N", "s", "A", "c", "T", "i", "O", "n">>,
     <<"a", "l", "l">>,
     <<"A", "L", "L">>,
     <<"a", "L", "l">>,
     <<>>,
     <<"o", "w", "n", "e", "r">>,
     <<"c", "o", "m", "b", "i", "n", "e", "d">>,
     <<"0">>,
     <<"a", "l", "l", " ">>}

\* everything outside the projection life cycle and the cache
walkVars == <<insertVars, collection_name, feed, now, runs, pc, T, ids_list, idx,
              result, status_code, calls, lastUpdateAt, schedVars, parked>>
ingestVars == <<graphVars, walkVars, detectVars>>

\* an exception that is recorded while the operation goes on
RaiseAndGoOn(w, e) ==
    /\ werr' = [werr EXCEPT ![w] = e]
    /\ UNCHANGED wpc

\* the operation ends with an exception (propagated to the endpoint by the
\* queries, caught and turned into the failure string by run_community_detection)
Raise(w, e) ==
    /\ wpc' = [wpc EXCEPT ![w] = "returned"]
    /\ werr' = [werr EXCEPT ![w] = e]

\* what run_community_detection returns to its caller
ReturnValue(w) ==
    IF werr[w] = "ok" THEN "Update Completed" ELSE "Something went wrong QAQ"

\* the entry of an operation
Enter(w, op) ==
    /\ wpc[w] = "idle"
    /\ ops < MaxOps
    /\ ops' = ops + 1
    /\ wop' = [wop EXCEPT ![w] = op]
    /\ wprev' = [wprev EXCEPT ![w] = community_info]
    /\ UNCHANGED <<directory, wstep, cleaned, todrop, foreign, cacheKeys,
                   graphVars, walkVars, community_info, wres, wids, wcoms>>

Start(w, op) ==
    /\ Enter(w, op)
    /\ wpc' = [wpc EXCEPT ![w] = "list"]
    /\ UNCHANGED <<werr, scopeVars>>

StartOp(w) == \E op \in Operations : Start(w, op)

\* a request for a single community: get_single_community starts with
\* scope_processed = self.get_scope(scope), before its first query
StartSingleCommunity(w) ==
    /\ \A v \in Workers : wpc[v] = "idle"
    /\ Enter(w, [kind |-> "single", collection |-> "-", limit |-> 0])
    /\ \E scope \in ScopeLabels :
        /\ wlabel' = [wlabel EXCEPT ![w] = <<scope>>]
        /\ wscope' = [wscope EXCEPT ![w] = get_scope(scope)]
        /\ IF get_scope(scope) = <<>>
           THEN Raise(w, "notexists")
           ELSE /\ wpc' = [wpc EXCEPT ![w] = "list"]
                /\ UNCHANGED werr

\* a request to /runCommunity while no other operation is in flight
StartDetection(w) ==
    /\ \A v \in Workers : wpc[v] = "idle"
    /\ ops < MaxDetections
    /\ \E op \in DetectionRequests : Start(w, op)

\* list_graphs = db.run_query('neo4j', "CALL gds.graph.list()")
ListGraphs(w) ==
    /\ wpc[w] = "list"
    /\ \/ /\ todrop' = [todrop EXCEPT ![w] = NamesToDrop(wop[w], GdsNames(directory))]
          /\ wpc' = [wpc EXCEPT ![w] =
                        IF NamesToDrop(wop[w], GdsNames(directory)) = {}
                        THEN AfterCleanup(wop[w]) ELSE "drop"]
          /\ UNCHANGED werr
       \/ /\ Raise(w, "db")
          /\ UNCHANGED todrop
    /\ UNCHANGED <<directory, wop, wstep, cleaned, foreign, ops, cacheKeys, ingestVars>>

\* CALL gds.graph.drop(name) for a listed name; dropping a missing graph raises
DropListed(w) ==
    /\ wpc[w] = "drop"
    /\ \E name \in todrop[w] :
        \/ /\ GdsExists(directory, name)
           /\ directory' = GdsDrop(directory, name)
           /\ foreign' = [foreign EXCEPT ![w] = @ \/ Foreign(directory, name, w)]
           /\ todrop' = [todrop EXCEPT ![w] = @ \ {name}]
           /\ cleaned' = [cleaned EXCEPT ![w] =
                             @ \/ \E k \in DOMAIN OpNames(wop[w]) : OpNames(wop[w])[k] = name]
           /\ wpc' = [wpc EXCEPT ![w] =
                         IF todrop[w] = {name} THEN AfterCleanup(wop[w]) ELSE "drop"]
           /\ UNCHANGED werr
        \/ /\ ~GdsExists(directory, name)
           /\ Raise(w, "missing")
           /\ UNCHANGED <<directory, foreign, todrop, cleaned>>
        \/ /\ Raise(w, "db")
           /\ UNCHANGED <<directory, foreign, todrop, cleaned>>
    /\ UNCHANGED <<wop, wstep, ops, cacheKeys, ingestVars>>

\* get_single_community: total_node_count == 0 raises NotExistsException
CountNodes(w) ==
    /\ wpc[w] = "count"
    /\ \/ wpc' = [wpc EXCEPT ![w] = "create"] /\ UNCHANGED werr
       \/ Raise(w, "notexists")
       \/ Raise(w, "db")
    /\ UNCHANGED <<directory, wop, wstep, cleaned, ops, todrop, foreign, cacheKeys, ingestVars>>

\* CALL gds.graph.project(name, ..): a name that exists raises
CreateProjection(w) ==
    /\ wpc[w] = "create"
    /\ LET names == OpNames(wop[w])
           name == names[wstep[w]]
       IN  \/ /\ ~GdsExists(directory, name)
              /\ directory' = GdsCreate(directory, name, w)
              /\ IF wstep[w] < Len(names)
                 THEN /\ wstep' = [wstep EXCEPT ![w] = @ + 1]
                      /\ UNCHANGED wpc
                 ELSE /\ wstep' = [wstep EXCEPT ![w] = 1]
                      /\ wpc' = [wpc EXCEPT ![w] = "run"]
              /\ UNCHANGED werr
           \/ /\ GdsExists(directory, name)
              /\ Raise(w, "exists")
              /\ UNCHANGED <<directory, wstep>>
           \/ /\ Raise(w, "db")
              /\ UNCHANGED <<directory, wstep>>
    /\ UNCHANGED <<wop, cleaned, ops, todrop, foreign, cacheKeys, ingestVars>>

\* CALL gds.degree.stream(name) / gds.louvain.stream(name): a missing projection
\* raises; for detection the rows are the communities in descending size order
RunAlgorithm(w) ==
    /\ wpc[w] = "run"
    /\ LET name == OpNames(wop[w])[wstep[w]]
       IN  \/ /\ GdsExists(directory, name)
              /\ foreign' = [foreign EXCEPT ![w] = @ \/ Foreign(directory, name, w)]
              /\ IF wop[w].kind = "detection"
                 THEN \E coms \in LouvainOutcomes(
                                    ProjNodeSeq(wop[w].collection, wstep[w],
                                                (CHOOSE g \in directory : g.name = name).accounts)),
                         tie \in TieOrders :
                         LET rows == LimitRows(OrderBySize(coms, tie), wop[w].limit)
                         IN  /\ wcoms' = [wcoms EXCEPT ![w] = coms]
                             /\ wres' = [wres EXCEPT ![w] = rows]
                             /\ wids' = [wids EXCEPT ![w] = <<>>]
                             /\ wpc' = [wpc EXCEPT ![w] =
                                           IF rows = <<>> THEN "summary" ELSE "members"]
                 ELSE /\ wpc' = [wpc EXCEPT ![w] = "cleanup"]
                      /\ UNCHANGED <<wcoms, wres, wids>>
              /\ UNCHANGED werr
           \/ /\ ~GdsExists(directory, name)
              /\ Raise(w, "missing")
              /\ UNCHANGED <<foreign, wcoms, wres, wids>>
           \/ /\ Raise(w, "db")
              /\ UNCHANGED <<foreign, wcoms, wres, wids>>
    /\ UNCHANGED <<directory, wop, wstep, cleaned, ops, todrop, cacheKeys, graphVars,
                   walkVars, community_info, wprev, scopeVars>>

\* one pass of `for record in community_result`: update_nodes_com_property for
\* the nodes of the record, then community_id.append
WriteMembership(w) ==
    /\ wpc[w] = "members"
    /\ LET record == Head(wres[w])
           Member(node) == node \in record.nodeList
       IN  \/ /\ accounts' = [i \in DOMAIN accounts |->
                                IF Member([label |-> "Account", id |-> i])
                                THEN update_nodes_com_property(accounts[i], wop[w].collection,
                                                               record.communityId, wstep[w] - 1)
                                ELSE accounts[i]]
              /\ nfts' = [n \in DOMAIN nfts |->
                            IF Member([label |-> "NFT", id |-> n])
                            THEN update_nodes_com_property(nfts[n], wop[w].collection,
                                                           record.communityId, wstep[w] - 1)
                            ELSE nfts[n]]
              /\ wids' = [wids EXCEPT ![w] = Append(@, record.communityId)]
              /\ wres' = [wres EXCEPT ![w] = Tail(@)]
              /\ wpc' = [wpc EXCEPT ![w] =
                            IF Tail(wres[w]) = <<>> THEN "summary" ELSE "members"]
              /\ UNCHANGED werr
           \/ /\ Raise(w, "db")
              /\ UNCHANGED <<accounts, nfts, wids, wres>>
    /\ UNCHANGED <<owned, transacted, walkVars, directory, wop, wstep, cleaned, ops,
                   todrop, foreign, cacheKeys, community_info, wcoms, wprev, scopeVars>>

\* update_community_id_info(community_id, collection_name, scope):
\* array_property[scope] = idList, then the next scope or the end
WriteSummary(w) ==
    /\ wpc[w] = "summary"
    /\ \/ /\ community_info' =
                [community_info EXCEPT
                    ![get_processed_collection_name(wop[w].collection)][wstep[w]] = wids[w]]
          /\ IF wstep[w] < Len(OpNames(wop[w]))
             THEN /\ wstep' = [wstep EXCEPT ![w] = @ + 1]
                  /\ wpc' = [wpc EXCEPT ![w] = "run"]
             ELSE /\ wstep' = [wstep EXCEPT ![w] = 1]
                  /\ wpc' = [wpc EXCEPT ![w] = "finish"]
          /\ UNCHANGED werr
       \/ /\ Raise(w, "db")
          /\ UNCHANGED <<community_info, wstep>>
    /\ UNCHANGED <<graphVars, walkVars, directory, wop, cleaned, ops, todrop, foreign,
                   cacheKeys, wres, wids, wcoms, wprev, scopeVars>>

\* the drop after the algorithm of get_most_central_nodes / get_single_community
DropOwn(w) ==
    /\ wpc[w] = "cleanup"
    /\ LET name == OpNames(wop[w])[1]
       IN  \/ /\ GdsExists(directory, name)
              /\ directory' = GdsDrop(directory, name)
              /\ foreign' = [foreign EXCEPT ![w] = @ \/ Foreign(directory, name, w)]
              /\ Raise(w, "ok")
           \/ /\ ~GdsExists(directory, name)
              /\ Raise(w, "missing")
              /\ UNCHANGED <<directory, foreign>>
           \/ /\ Raise(w, "db")
              /\ UNCHANGED <<directory, foreign>>
    /\ UNCHANGED <<wop, wstep, cleaned, ops, todrop, cacheKeys, ingestVars>>

\* run_community_detection after update_community_detection:
\* delete_cache_keys("application-cache:community:*"); return "Update Completed"
DetectionFinish(w) ==
    /\ wpc[w] = "finish"
    /\ \/ /\ cacheKeys' = delete_cache_keys(cacheKeys, <<"application-cache", "community">>)
          /\ Raise(w, "ok")
       \/ /\ Raise(w, "redis")
          /\ UNCHANGED cacheKeys
    /\ UNCHANGED <<directory, wop, wstep, cleaned, ops, todrop, foreign, ingestVars>>

\* the operation has returned to its caller; what it left in the catalogue is
\* from now on a projection of a finished operation
Return(w) ==
    /\ wpc[w] = "returned"
    /\ directory' = {IF g.creator = <<w>> THEN [g EXCEPT !.creator = <<>>] ELSE g :
                        g \in directory}
    /\ wpc' = [wpc EXCEPT ![w] = "idle"]
    /\ wop' = [wop EXCEPT ![w] = NoOperation]
    /\ wstep' = [wstep EXCEPT ![w] = 1]
    /\ cleaned' = [cleaned EXCEPT ![w] = FALSE]
    /\ todrop' = [todrop EXCEPT ![w] = {}]
    /\ werr' = [werr EXCEPT ![w] = "none"]
    /\ foreign' = [foreign EXCEPT ![w] = FALSE]
    /\ wres' = [wres EXCEPT ![w] = <<>>]
    /\ wids' = [wids EXCEPT ![w] = <<>>]
    /\ wcoms' = [wcoms EXCEPT ![w] = {}]
    /\ wprev' = [wprev EXCEPT ![w] = SeedCommunityInfo]
    /\ wlabel' = [wlabel EXCEPT ![w] = <<>>]
    /\ wscope' = [wscope EXCEPT ![w] = <<>>]
    /\ UNCHANGED <<ops, cacheKeys, graphVars, walkVars, community_info>>

(***************************************************************************)
(* The scheduler (apscheduler.py) and the stored update frequencies        *)
(* (update_functionality.py:85-91, 334-344).                               *)
(***************************************************************************)
\* the frequencies of requests to /set_frequency (seconds)
Frequencies == {3600, 7200}

\* the collection names of requests to /get_frequency and /set_frequency
FrequencyNames == TrackedCollections \cup {"complete", "azuki"}

\* the Update_Info nodes of a database that holds both tracked collections
SeedUpdateInfo == [c \in {"boredapeyachtclub", "degods"} |-> 7200]

\* get_update_frequency: the frequency of the node, 86000 when no node matches
get_update_frequency(info, name) ==
    IF get_processed_collection_name(name) \in DOMAIN info
    THEN info[get_processed_collection_name(name)]
    ELSE 86000

\* set_update_frequency: SET n.update_frequency on the nodes that match
set_update_frequency(info, name, frequency) ==
    [c \in DOMAIN info |->
        IF c = get_processed_collection_name(name) THEN frequency ELSE info[c]]

\* a job store in which the jobs of the collection are re-armed with the frequency
Rearmed(js, name, frequency) ==
    [k \in DOMAIN js |->
        IF js[k].args[Len(js[k].args)] = <<name>>
        THEN [js[k] EXCEPT !.seconds = frequency]
        ELSE js[k]]

\* the job store after set_update_frequency, which only runs the SET query
JobsAfterSet(js, name, frequency) == js

\* scheduler.add_job(func, 'interval', seconds=.., id=.., args=..): the first
\* run is one interval after the job is added
Job(func, seconds, id, args, t) ==
    [id |-> id, func |-> func, seconds |-> seconds, args |-> args,
     next_run_time |-> t + seconds]

\* every job armed with the frequency of boredapeyachtclub
start_scheduler_one_frequency(info, t) ==
    LET ape_frequency == get_update_frequency(info, "boredapeyachtclub")
    IN  <<Job("run_update", ape_frequency, "boredapeyachtclub_query_new_data",
              << <<"boredapeyachtclub">> >>, t),
          Job("run_update", ape_frequency, "degods-eth_query_new_data",
              << <<"degods-eth">> >>, t),
          Job("run_community_detection", ape_frequency, "boredapeyachtclub_run_com",
              << <<SchedulerLimit>>, <<"boredapeyachtclub">> >>, t),
          Job("run_community_detection", ape_frequency, "degods-eth_run_com",
              << <<SchedulerLimit>>, <<"degods-eth">> >>, t),
          Job("run_community_detection", ape_frequency, "complete_run_com",
              << <<SchedulerLimit>>, <<"complete">> >>, t)>>

\* the jobs start_scheduler adds (lines 18-25); arguments are kept as <<value>>
start_scheduler(info, t) ==
    LET ape_frequency == get_update_frequency(info, "boredapeyachtclub")
        degods_frequency == get_update_frequency(info, "degods-eth")
    IN  <<Job("run_update", ape_frequency, "boredapeyachtclub_query_new_data",
              << <<"boredapeyachtclub">> >>, t),
          Job("run_update", degods_frequency, "degods-eth_query_new_data",
              << <<"degods-eth">> >>, t),
          Job("run_community_detection", ape_frequency, "boredapeyachtclub_run_com",
              << <<SchedulerLimit>>, <<"boredapeyachtclub">> >>, t),
          Job("run_community_detection", degods_frequency, "degods-eth_run_com",
              << <<SchedulerLimit>>, <<"degods-eth">> >>, t),
          Job("run_community_detection", degods_frequency, "complete_run_com",
              << <<SchedulerLimit>>, <<"complete">> >>, t)>>

\* everything but the scheduler, the stored frequencies and the clock
restVars == <<graphVars, insertVars, collection_name, feed, runs, pc, T, ids_list, idx,
              result, status_code, calls, lastUpdateAt, cacheKeys, projVars, parked>>

\* the process starts: lifespan calls start_scheduler on an empty job store
StartScheduler ==
    /\ ~running
    /\ starts < MaxStarts
    /\ starts' = starts + 1
    /\ running' = TRUE
    /\ jobs' = start_scheduler(update_info, now)
    /\ UNCHANGED <<update_info, lastFreq, now, restVars>>

\* the process ends: the job store is in memory
StopProcess ==
    /\ running
    /\ running' = FALSE
    /\ jobs' = <<>>
    /\ UNCHANGED <<update_info, lastFreq, starts, now, restVars>>

\* GET /update/get_frequency: the value get_update_frequency returns, or the
\* exception of db.run_query
GetFrequency ==
    /\ \E name \in FrequencyNames :
        \/ lastFreq' = <<[collection_name |-> name, exception |-> "none",
                          reply |-> <<get_update_frequency(update_info, name)>>]>>
        \/ lastFreq' = <<[collection_name |-> name, exception |-> "db",
                          reply |-> <<>>]>>
    /\ UNCHANGED <<update_info, running, jobs, starts, now, restVars>>

\* GET /update/set_frequency
SetFrequency ==
    /\ \E name \in FrequencyNames, frequency \in Frequencies :
        /\ update_info' = set_update_frequency(update_info, name, frequency)
        /\ jobs' = JobsAfterSet(jobs, name, frequency)
    /\ UNCHANGED <<running, lastFreq, starts, now, restVars>>

\* the clock advances
Tick ==
    /\ now < Now0 + MaxTicks * 3600
    /\ now' = now + 3600
    /\ UNCHANGED <<schedVars, restVars>>

\* an interval trigger fires: the next run is one interval of the job later
Fire ==
    /\ running
    /\ \E k \in DOMAIN jobs :
        /\ jobs[k].next_run_time <= now
        /\ jobs' = [jobs EXCEPT ![k].next_run_time = @ + jobs[k].seconds]
    /\ UNCHANGED <<update_info, running, lastFreq, starts, now, restVars>>

(***************************************************************************)
(* Two run_update invocations for the same collection: the job of the      *)
(* scheduler and a request to /update/test_update run on different         *)
(* threads, and each db.run_query or feed request of one may be followed   *)
(* by a step of the other.                                                 *)
(***************************************************************************)
\* the locals of an invocation that has not started
IdleInvocation ==
    [pc |-> "idle", T |-> 0, ids_list |-> <<>>, idx |-> 1, result |-> <<>>,
     status_code |-> <<>>, calls |-> {}]

\* the other invocation takes the next steps
Switch ==
    /\ pc # "idle" \/ parked.pc # "idle"
    /\ parked' = [pc |-> pc, T |-> T, ids_list |-> ids_list, idx |-> idx,
                  result |-> result, status_code |-> status_code, calls |-> calls]
    /\ pc' = parked.pc
    /\ T' = parked.T
    /\ ids_list' = parked.ids_list
    /\ idx' = parked.idx
    /\ result' = parked.result
    /\ status_code' = parked.status_code
    /\ calls' = parked.calls
    /\ UNCHANGED <<graphVars, insertVars, collection_name, feed, now, runs,
                   lastUpdateAt, cacheKeys, projVars, schedVars>>

(***************************************************************************)
(* Initial states.                                                         *)
(***************************************************************************)
\* seed graphs: NFT nodes only, or NFT 1 held by the account of address 0xA
SeedNfts(stored_name, updated) ==
    [i \in Identifiers |->
        [identifier |-> i, collection_name |-> stored_name,
         updated_at |-> updated[i],
         boredapeyachtclub_com_id_list |-> mock_data,
         complete_com_id_list |-> mock_data,
         degods_com_id_list |-> mock_data]]

SeedOwned ==
    {[account |-> 1, nft |-> 1, currently_owned |-> TRUE, from |-> 1, until |-> 0]}

InitEdges ==
    /\ transacted = EmptyBag
    /\ \/ accounts = <<>> /\ owned = {}
       \/ accounts = <<MockAccount("0xA")>> /\ owned = SeedOwned
    /\ lastEv = <<>>
    /\ lastExc = "none"
    /\ inserts = 0
    /\ ingested = <<>>
    /\ seedGraph = [accounts |-> accounts, owned |-> owned]

SeedCacheKeys ==
    {<<"application-cache", "centrality", "k1">>,
     <<"application-cache", "community", "k2">>,
     <<"session", "k3">>}

UpdateIdle ==
    /\ now = Now0
    /\ runs = 0
    /\ pc = "idle"
    /\ T = 0
    /\ ids_list = <<>>
    /\ idx = 1
    /\ result = <<>>
    /\ status_code = <<>>
    /\ calls = {}
    /\ lastUpdateAt = <<>>
    /\ cacheKeys = SeedCacheKeys
    /\ parked = IdleInvocation
    /\ running = FALSE
    /\ jobs = <<>>
    /\ lastFreq = <<>>
    /\ starts = 0

WorkersIdle ==
    /\ wop = [w \in Workers |-> NoOperation]
    /\ wpc = [w \in Workers |-> "idle"]
    /\ wstep = [w \in Workers |-> 1]
    /\ cleaned = [w \in Workers |-> FALSE]
    /\ ops = 0
    /\ todrop = [w \in Workers |-> {}]
    /\ werr = [w \in Workers |-> "none"]
    /\ foreign = [w \in Workers |-> FALSE]
    /\ community_info = SeedCommunityInfo
    /\ wres = [w \in Workers |-> <<>>]
    /\ wids = [w \in Workers |-> <<>>]
    /\ wcoms = [w \in Workers |-> {}]
    /\ wprev = [w \in Workers |-> SeedCommunityInfo]
    /\ wlabel = [w \in Workers |-> <<>>]
    /\ wscope = [w \in Workers |-> <<>>]

ProjIdle ==
    /\ directory = {}
    /\ WorkersIdle

(***************************************************************************)
(* The per-event specification: insert_new_trx_data called with arbitrary  *)
(* events on a seeded graph.                                               *)
(***************************************************************************)
InitGraph ==
    /\ update_info = SeedUpdateInfo
    /\ nfts = SeedNfts(ApeSlug, [i \in Identifiers |-> 0])
    /\ InitEdges
    /\ collection_name = ApeSlug
    /\ feed = [i \in Identifiers |-> << <<>> >>]
    /\ UpdateIdle
    /\ ProjIdle

\* one call insert_new_trx_data(data)
InsertEvent ==
    /\ inserts < MaxInserts
    /\ \E data \in EventSet :
        /\ SetGraph(InsertNewTrxData(Graph, data))
        /\ lastEv' = <<data>>
        /\ lastExc' = InsertOutcome(data)
    /\ inserts' = inserts + 1
    /\ UNCHANGED <<ingested, seedGraph, updateVars, projVars, schedVars, parked>>

NextGraph == InsertEvent

SpecGraph == InitGraph /\ [][NextGraph]_vars

(***************************************************************************)
(* The ingestion specification: scheduled run_update invocations for one   *)
(* tracked collection.                                                     *)
(***************************************************************************)
\* the collection_name the NFT nodes of a tracked collection are stored with
StoredNames(name) == {name, get_processed_collection_name(name)}

\* last-synchronized times around the staleness boundary of the first run
SeedUpdatedAt == {Now0 - 2 * 86400, Now0 - 2 * 86400 + 1}

InitUpdate ==
    /\ update_info = SeedUpdateInfo
    /\ collection_name \in TrackedCollections
    /\ \E stored \in StoredNames(collection_name), updated \in [Identifiers -> SeedUpdatedAt] :
        nfts = SeedNfts(stored, updated)
    /\ InitEdges
    /\ feed \in [Identifiers -> UNION {FeedShapes(i, collection_name) : i \in Identifiers}]
    /\ \A i \in Identifiers : feed[i] \in FeedShapes(i, collection_name)
    /\ UpdateIdle
    /\ ProjIdle

NextUpdate ==
    \/ RunUpdateStart
    \/ ForNext
    \/ FirstPage
    \/ WhileTest
    \/ NextPage
    \/ MarkUpdated
    \/ RunUpdateEnd
    \/ NextTrigger

SpecUpdate == InitUpdate /\ [][NextUpdate]_vars

\* scheduled invocations for boredapeyachtclub on a graph without accounts whose
\* NFTs are all due and whose feed pages hold at most one event, and whose
\* steps are eventually taken
InitWalk ==
    /\ InitUpdate
    /\ collection_name = ApeSlug
    /\ accounts = <<>>
    /\ \A n \in DOMAIN nfts : nfts[n].updated_at = Now0 - 2 * 86400
    /\ \A i \in Identifiers : \A j \in DOMAIN feed[i] : Len(feed[i][j]) <= 1

\* every step of an invocation changes its position
position == <<pc, idx>>

SpecWalkFair == InitWalk /\ [][NextUpdate]_vars /\ WF_position(NextUpdate)

(***************************************************************************)
(* The projection specifications: operations of several workers overlap    *)
(* (Spec), or one operation runs at a time (SpecSolo).  The catalogue      *)
(* starts empty or with one projection left by an earlier process.         *)
(***************************************************************************)
InitProj ==
    /\ update_info = SeedUpdateInfo
    /\ nfts = SeedNfts(ApeSlug, [i \in Identifiers |-> 0])
    /\ InitEdges
    /\ accounts = <<>>
    /\ collection_name = ApeSlug
    /\ feed = [i \in Identifiers |-> << <<>> >>]
    /\ UpdateIdle
    /\ WorkersIdle
    /\ \/ directory = {}
       \/ \E name \in ProjNames : directory = {[name |-> name, creator |-> <<>>, accounts |-> 0]}

Next ==
    \E w \in Workers :
        \/ StartOp(w)
        \/ ListGraphs(w)
        \/ DropListed(w)
        \/ CountNodes(w)
        \/ CreateProjection(w)
        \/ RunAlgorithm(w)
        \/ WriteMembership(w)
        \/ WriteSummary(w)
        \/ DropOwn(w)
        \/ DetectionFinish(w)
        \/ Return(w)

Init == InitProj

Spec == Init /\ [][Next]_vars

\* an operation starts only when no other is in flight
StartOpSolo(w) ==
    /\ \A v \in Workers : wpc[v] = "idle"
    /\ StartOp(w)

NextSolo ==
    \E w \in Workers :
        \/ StartOpSolo(w)
        \/ ListGraphs(w)
        \/ DropListed(w)
        \/ CountNodes(w)
        \/ CreateProjection(w)
        \/ RunAlgorithm(w)
        \/ WriteMembership(w)
        \/ WriteSummary(w)
        \/ DropOwn(w)
        \/ DetectionFinish(w)
        \/ Return(w)

SpecSolo == InitProj /\ [][NextSolo]_vars

(***************************************************************************)
(* The detection specification: requests to /runCommunity, one at a time,  *)
(* while the ingestion job applies events of the feed.                     *)
(***************************************************************************)
\* the events the ingestion job applies while detection runs
DetectionEvents == {Event(Tx1, "0xA", "0xB", 1, ApeSlug)}

\* one call insert_new_trx_data(data) of the ingestion job
InsertFeedEvent ==
    /\ inserts < MaxInserts
    /\ \E data \in DetectionEvents :
        /\ SetGraph(InsertNewTrxData(Graph, data))
        /\ lastEv' = <<data>>
        /\ lastExc' = InsertOutcome(data)
    /\ inserts' = inserts + 1
    /\ UNCHANGED <<ingested, seedGraph, updateVars, projVars, schedVars, parked>>

InitDetect ==
    /\ update_info = SeedUpdateInfo
    /\ nfts = SeedNfts(ApeSlug, [i \in Identifiers |-> 0])
    /\ InitEdges
    /\ collection_name = ApeSlug
    /\ feed = [i \in Identifiers |-> << <<>> >>]
    /\ UpdateIdle
    /\ WorkersIdle
    /\ \/ directory = {}
       \/ directory = {[name |-> <<ApeSlug, "owned">>, creator |-> <<>>, accounts |-> 0]}

NextDetect ==
    \/ InsertFeedEvent
    \/ \E w \in Workers :
        \/ StartDetection(w)
        \/ ListGraphs(w)
        \/ DropListed(w)
        \/ CreateProjection(w)
        \/ RunAlgorithm(w)
        \/ WriteMembership(w)
        \/ WriteSummary(w)
        \/ DetectionFinish(w)
        \/ Return(w)

SpecDetect == InitDetect /\ [][NextDetect]_vars

(***************************************************************************)
(* The single-community specification: requests to get_single_community    *)
(* with any scope label, one at a time.                                    *)
(***************************************************************************)
NextScope ==
    \E w \in Workers :
        \/ StartSingleCommunity(w)
        \/ ListGraphs(w)
        \/ DropListed(w)
        \/ CountNodes(w)
        \/ CreateProjection(w)
        \/ RunAlgorithm(w)
        \/ DropOwn(w)
        \/ Return(w)

SpecScope == InitDetect /\ [][NextScope]_vars

(***************************************************************************)
(* The scheduler specification: the process starts and stops, requests     *)
(* read and set the stored frequencies, and interval triggers fire.  The   *)
(* database holds an Update_Info node for any of the tracked collections.  *)
(***************************************************************************)
InitSched ==
    /\ \E S \in SUBSET {"boredapeyachtclub", "degods"} :
        update_info \in [S -> Frequencies]
    /\ nfts = SeedNfts(ApeSlug, [i \in Identifiers |-> 0])
    /\ InitEdges
    /\ accounts = <<>>
    /\ collection_name = ApeSlug
    /\ feed = [i \in Identifiers |-> << <<>> >>]
    /\ UpdateIdle
    /\ ProjIdle

NextSched ==
    \/ StartScheduler
    \/ StopProcess
    \/ GetFrequency
    \/ SetFrequency
    \/ Tick
    \/ Fire

SpecSched == InitSched /\ [][NextSched]_vars

(***************************************************************************)
(* The overlap specification: two run_update invocations for               *)
(* boredapeyachtclub that start at different times and overlap.            *)
(***************************************************************************)
NextOverlap ==
    \/ RunUpdateStart
    \/ ForNext
    \/ FirstPage
    \/ WhileTest
    \/ NextPage
    \/ MarkUpdated
    \/ RunUpdateEnd
    \/ Switch
    \/ Tick

SpecOverlap == InitWalk /\ [][NextOverlap]_vars

(***************************************************************************)
(* Properties of the per-event mutation.                                   *)
(***************************************************************************)
CurrentOwners(n) == {e \in owned : e.nft = n /\ e.currently_owned}

\* C2: succession invariant - every NFT has at most one OWNED relationship
\* with currently_owned = true after any sequence of insert_new_trx_data calls.
C2_SuccessionInvariant ==
    \A n \in DOMAIN nfts : Cardinality(CurrentOwners(n)) <= 1

\* C3: idempotence - a second insert_new_trx_data call with the event of the
\* call before it is a no-op: nodes, OWNED and TRANSACTED relationships stay as
\* the first call left them (one TRANSACTED relationship for the event).
C3_SecondApplicationIsNoOp ==
    [][(inserts' = inserts + 1 /\ lastEv' = lastEv) => UNCHANGED graphVars]_vars

(***************************************************************************)
(* Properties of one run_update invocation, read when it has returned.     *)
(***************************************************************************)
\* the positions of ids_list that pass the staleness gate of the invocation
DueIdx == {k \in DOMAIN ids_list : IsDue(T, ids_list[k].updated_at)}

CallsOf(id) == {c \in calls : c.id = id}

\* page j of the identifier was requested with the window [updated_at, T] and returned
PageFetched(k, j) ==
    \E c \in CallsOf(ids_list[k].id) :
        /\ c.outcome = "ok"
        /\ c.cursor = IF j = 1 THEN <<>> ELSE <<j>>
        /\ c.after = ids_list[k].updated_at
        /\ c.till = T

\* the graph holds a TRANSACTED relationship of the event
EventApplied(e) ==
    \E t \in BagToSet(transacted) :
        /\ t.transaction_hash = e.transaction
        /\ t.identifier = e.nft.identifier

PageApplied(k, j) ==
    \A n \in DOMAIN feed[ids_list[k].id][j] : EventApplied(feed[ids_list[k].id][j][n])

\* every page of the identifier was fetched and none of its requests failed
WalkComplete(k) ==
    /\ \A j \in DOMAIN feed[ids_list[k].id] : PageFetched(k, j)
    /\ \A c \in CallsOf(ids_list[k].id) : c.outcome = "ok"

\* the stored updated_at of the NFT node that position k of ids_list was read from
StoredUpdatedAt(k) ==
    LET n == CHOOSE m \in DOMAIN nfts :
                /\ nfts[m].identifier = ids_list[k].id
                /\ nfts[m].collection_name = get_processed_collection_name(collection_name)
    IN  nfts[n].updated_at

\* C4: in one run_update invocation whose feed requests all succeed, every due
\* entity's feed is walked from its updated_at to T through every page up to the
\* empty cursor, and every event of every page is applied.
C4_WalkDrainsEveryDueEntity ==
    (pc = "done" /\ \A c \in calls : c.outcome = "ok")
        => \A k \in DueIdx : \A j \in DOMAIN feed[ids_list[k].id] :
                PageFetched(k, j) /\ PageApplied(k, j)

\* C5: when a due entity's walk completes with every page fetched successfully,
\* the invocation leaves that entity's updated_at at T.
C5_CompletedWalkIsMarked ==
    pc = "done"
        => \A k \in DueIdx : WalkComplete(k) => StoredUpdatedAt(k) = T

\* C6: a due entity whose feed request failed and of which no page was fetched
\* in the invocation keeps the updated_at it had before the invocation.
C6_FailedEntityKeepsUpdatedAt ==
    pc = "done"
        => \A k \in DueIdx :
              (/\ \E c \in CallsOf(ids_list[k].id) : c.outcome # "ok"
               /\ \A c \in CallsOf(ids_list[k].id) : c.outcome # "ok")
                  => StoredUpdatedAt(k) = ids_list[k].updated_at

\* C7: a feed error while fetching one entity does not abort the run - every
\* other due entity is still fetched in the same invocation.
C7_FeedErrorDoesNotAbortRun ==
    pc = "done"
        => \A k \in DueIdx :
              (\E c \in calls : c.outcome # "ok" /\ c.id # ids_list[k].id)
                  => CallsOf(ids_list[k].id) # {}

\* C8: staleness gate - an entity is fetched from the feed in the invocation
\* if and only if T - updated_at >= 172800, and an entity that is not due keeps
\* its updated_at.
C8_FetchedIffDue ==
    pc = "done"
        => \A k \in DOMAIN ids_list :
              /\ (CallsOf(ids_list[k].id) # {}) <=> (T - ids_list[k].updated_at >= 172800)
              /\ (T - ids_list[k].updated_at < 172800)
                    => StoredUpdatedAt(k) = ids_list[k].updated_at

(***************************************************************************)
(* Properties of the projection life cycle.                                *)
(***************************************************************************)
\* C1: two operations in flight that use the same projection name
\* ('centralityGraph' or 'tempGraph') never interleave: no create is issued
\* while the name exists, and no operation runs its algorithm on, or drops, a
\* projection that another operation in flight created.
C1_SameNameOperationsExclude ==
    \A w \in Workers :
        wop[w].kind \in {"centrality", "single"} =>
            /\ werr[w] # "exists"
            /\ ~foreign[w]

\* C9: when an operation has returned, with success or with a failure after its
\* create, no projection it created is still in the catalogue.
C9_NoProjectionOutlivesItsOperation ==
    \A w \in Workers :
        wpc[w] = "returned" => ~\E g \in directory : g.creator = <<w>>

\* C10: an operation that finds a projection of its own name left in the
\* catalogue drops it before it creates: create is never issued on a name that
\* exists and no operation ends with the name-in-use error.
C10_StaleProjectionIsDroppedBeforeCreate ==
    \A w \in Workers :
        /\ werr[w] # "exists"
        /\ wpc[w] = "create" =>
               ~GdsExists(directory, OpNames(wop[w])[wstep[w]])

\* an operation listed a projection of its own name, dropped it, and created
\* every projection it uses
C10_Witness ==
    \E w \in Workers :
        /\ cleaned[w]
        /\ wpc[w] = "run"
        /\ \A k \in DOMAIN OpNames(wop[w]) :
               \E g \in directory : g.name = OpNames(wop[w])[k] /\ g.creator = <<w>>

(***************************************************************************)
(* Properties of ingestion across pages and invocations.                   *)
(***************************************************************************)
\* the events of a sequence, each kept at its first occurrence
RECURSIVE Dedup(_)
Dedup(evs) ==
    IF evs = <<>> THEN <<>>
    ELSE LET rest == Dedup(SubSeq(evs, 1, Len(evs) - 1))
             last == evs[Len(evs)]
         IN  IF \E k \in DOMAIN rest : rest[k] = last THEN rest
             ELSE Append(rest, last)

\* the graph that results from applying the de-duplicated events once each
IngestedOnce ==
    ApplyEvents([accounts |-> seedGraph.accounts, nfts |-> nfts,
                 owned |-> seedGraph.owned, transacted |-> EmptyBag],
                Dedup(ingested))

CurrentlyOwned(ow) == {[account |-> e.account, nft |-> e.nft] : e \in {x \in ow : x.currently_owned}}

\* C11: end-to-end idempotence - after run_update invocations whose windows
\* overlap (events fetched again), the graph has as many TRANSACTED and OWNED
\* relationships, and the same current owners, as after ingesting the
\* de-duplicated events once.
C11_IngestionIsIdempotent ==
    pc = "done" =>
        /\ BagCardinality(transacted) = BagCardinality(IngestedOnce.transacted)
        /\ Cardinality(owned) = Cardinality(IngestedOnce.owned)
        /\ CurrentlyOwned(owned) = CurrentlyOwned(IngestedOnce.owned)

\* the account node of a relationship end has the address
HolderIs(e, address) == accounts[e.account].address = address

\* C12: when insert_new_trx_data applies an event for an NFT whose current
\* holder is neither the event's from address nor its to address, the holder's
\* OWNED relationship gets currently_owned = false and until = event timestamp.
C12_CloseTargetsCurrentHolder ==
    [][(inserts' = inserts + 1 /\ lastEv' # <<>>) =>
         \A e \in owned :
            (/\ e.currently_owned
             /\ e.nft \in NftNodes(nfts, lastEv'[1].nft.identifier, lastEv'[1].nft.collection)
             /\ ~HolderIs(e, lastEv'[1].from_address)
             /\ ~HolderIs(e, lastEv'[1].to_address))
            => \E c \in owned' :
                  /\ c.account = e.account
                  /\ c.nft = e.nft
                  /\ ~c.currently_owned
                  /\ c.until = lastEv'[1].event_timestamp]_vars

(***************************************************************************)
(* Properties of the end of a run_update invocation.                       *)
(***************************************************************************)
\* the invocation has returned to the scheduler, normally or with an exception
Ended == pc \in {"done", "raised"}

\* C19: every run_update invocation, whether or not the entity walk failed,
\* ends with lastUpdateAt recorded and with no key matching application-cache:*
\* left in the cache.
C19_RunEndsWithTimestampAndInvalidation ==
    Ended =>
        /\ lastUpdateAt = <<now>>
        /\ \A k \in cacheKeys : ~KeyMatches(<<"application-cache">>, k)

\* C20: no run_update invocation ends with an exception that reaches the
\* scheduler, whichever step of it the graph store, the feed or the cache fails.
C20_NoExceptionReachesScheduler == pc # "raised"

(***************************************************************************)
(* Properties of community detection.                                      *)
(***************************************************************************)
\* C13: after any interleaving of insert_new_trx_data calls and detection runs
\* there is at most one Account node per address.
C13_AccountsUniqueByAddress ==
    \A a \in Addresses : Cardinality(AccountNodes(accounts, a)) <= 1

\* the worker's processed collection name, the key of the summary lists
SummaryKey(w) == get_processed_collection_name(wop[w].collection)

SizeOf(coms, id) == Cardinality((CHOOSE c \in coms : c.communityId = id).nodeList)

\* list holds the ids of the min(k, n) largest of the communities (all n when
\* k = 0), in descending size order
IsTopK(list, coms, k) ==
    LET n == Cardinality(coms)
        ids == {c.communityId : c \in coms}
        listed == {list[i] : i \in DOMAIN list}
    IN  /\ Len(list) = IF k # 0 THEN (IF k < n THEN k ELSE n) ELSE n
        /\ listed \subseteq ids
        /\ Cardinality(listed) = Len(list)
        /\ \A i, j \in DOMAIN list : i < j => SizeOf(coms, list[i]) >= SizeOf(coms, list[j])
        /\ \A id \in ids \ listed : \A i \in DOMAIN list : SizeOf(coms, list[i]) >= SizeOf(coms, id)

\* the step of the worker wrote the summary list of its scope
SummaryStep(w) == wpc[w] = "summary" /\ wpc'[w] \in {"run", "finish"}

\* C14: the summary list a detection run with limit k stores for a scope is the
\* community ids of the min(k, n) largest of the n detected communities in
\* descending size order when k # 0, and all n in descending size order when k = 0.
C14_SummaryIsTopK ==
    [][\A w \in Workers :
          SummaryStep(w) =>
              IsTopK(community_info'[SummaryKey(w)][wstep[w]], wcoms[w], wop[w].limit)]_vars

\* a summary list was cut to the limit, and the communities differ in size
C14_Witness ==
    \E w \in Workers :
        /\ wpc[w] = "run"
        /\ wstep[w] = 2
        /\ wop[w].limit # 0
        /\ Cardinality(wcoms[w]) > wop[w].limit
        /\ \E c, d \in wcoms[w] : Cardinality(c.nodeList) > Cardinality(d.nodeList)
        /\ Len(community_info[SummaryKey(w)][1]) = wop[w].limit

\* the slot of the membership array a projection's result belongs to
SlotOf(name) ==
    IF name[2] = "owned" THEN 0 ELSE IF name[2] = "trx" THEN 1 ELSE 2

OtherKeys(key) == {"boredapeyachtclub", "degods", "complete"} \ {key}

\* new is old with slot (a Python index) of the collection's array set to id
OnlySlotWritten(old, new, key, slot, id) ==
    /\ Len(ComIdList(new, key)) = 3
    /\ ComIdList(new, key)[slot + 1] = id
    /\ \A k \in 1..3 : k # slot + 1 => ComIdList(new, key)[k] = ComIdList(old, key)[k]
    /\ \A other \in OtherKeys(key) : ComIdList(new, other) = ComIdList(old, other)
    /\ SetComIdList(new, key, ComIdList(old, key)) = old

\* the step of the worker wrote the memberships of one community
MembershipStep(w) == wpc[w] = "members" /\ wres'[w] # wres[w]

\* C15: a detection run writes the community id found on the ownership
\* projection to slot 0, on the transaction projection to slot 1 and on the
\* combined projection to slot 2 of each member node's array of the collection;
\* the write leaves the other two slots, the length 3, the arrays of the other
\* collections and every other node unchanged.
C15_OnlyTheScopeSlotIsWritten ==
    [][\A w \in Workers :
          MembershipStep(w) =>
              LET record == Head(wres[w])
                  slot == SlotOf(OpNames(wop[w])[wstep[w]])
                  Ok(old, new, node) ==
                      IF node \in record.nodeList
                      THEN OnlySlotWritten(old, new, SummaryKey(w), slot, record.communityId)
                      ELSE new = old
              IN  /\ DOMAIN accounts' = DOMAIN accounts
                  /\ DOMAIN nfts' = DOMAIN nfts
                  /\ \A i \in DOMAIN accounts :
                        Ok(accounts[i], accounts'[i], [label |-> "Account", id |-> i])
                  /\ \A n \in DOMAIN nfts :
                        Ok(nfts[n], nfts'[n], [label |-> "NFT", id |-> n])]_vars

\* memberships of the combined scope were written to slot 2 of an Account node
\* and an NFT node that carry other ids in slots 0 and 1
C15_Witness ==
    \E w \in Workers, i \in DOMAIN accounts, n \in DOMAIN nfts :
        /\ wop[w].kind = "detection"
        /\ wstep[w] = 3
        /\ wpc[w] = "summary"
        /\ ComIdList(accounts[i], SummaryKey(w))[3] > 10
        /\ ComIdList(nfts[n], SummaryKey(w))[3] > 10
        /\ ComIdList(accounts[i], SummaryKey(w))[2] # ComIdList(accounts[i], SummaryKey(w))[3]

\* C17: the summary record of the collection differs from what it was when the
\* run started only once all three scopes have completed; a run that fails
\* earlier leaves it unchanged.
C17_SummaryReplacedAfterAllScopes ==
    \A w \in Workers :
        (wop[w].kind = "detection" /\ community_info[SummaryKey(w)] # wprev[w][SummaryKey(w)])
            => \/ wpc[w] = "finish"
               \/ wpc[w] = "returned" /\ werr[w] \in {"ok", "redis"}

\* the step of the worker raised an exception inside run_community_detection
RaisingStep(w) ==
    /\ wop[w].kind = "detection"
    /\ werr[w] = "none"
    /\ werr'[w] \notin {"none", "ok"}

\* C18: when a step of run_community_detection raises, the call returns the
\* failure result, no later step of it is executed, and the step leaves the
\* memberships and summary lists written before it in the graph.
C18_FailureAbortsAndKeepsWrites ==
    [][\A w \in Workers :
          /\ RaisingStep(w) =>
                /\ wpc'[w] = "returned"
                /\ ReturnValue(w)' = "Something went wrong QAQ"
                /\ accounts' = accounts
                /\ nfts' = nfts
                /\ community_info' = community_info
          /\ (wop[w].kind = "detection" /\ wpc[w] = "returned" /\ werr[w] # "ok") =>
                /\ wpc'[w] \in {"returned", "idle"}
                /\ community_info' = community_info]_vars

\* a run failed in its second or third scope with the summary list and the
\* memberships of a completed scope in the graph
C18_Witness ==
    \E w \in Workers :
        /\ wop[w].kind = "detection"
        /\ wpc[w] = "returned"
        /\ werr[w] = "db"
        /\ wstep[w] >= 2
        /\ community_info[SummaryKey(w)] # wprev[w][SummaryKey(w)]
        /\ \E n \in DOMAIN nfts : ComIdList(nfts[n], SummaryKey(w))[1] > 10

(***************************************************************************)
(* Properties of the scope label.                                          *)
(***************************************************************************)
\* the label in lower case
lower(scope) ==
    [i \in DOMAIN scope |->
        IF \E k \in DOMAIN UpperCase : UpperCase[k] = scope[i]
        THEN LowerCase[CHOOSE k \in DOMAIN UpperCase : UpperCase[k] = scope[i]]
        ELSE scope[i]]

\* the slot the writer uses for the scope the label names (<<>>: no scope)
SlotOfLabel(scope) ==
    IF lower(scope) = <<"o", "w", "n", "e", "r", "s", "h", "i", "p">>
    THEN <<SlotOf(<<"-", "owned">>)>>
    ELSE IF lower(scope) = <<"t", "r", "a", "n", "s", "a", "c", "t", "i", "o", "n">>
    THEN <<SlotOf(<<"-", "trx">>)>>
    ELSE IF lower(scope) = <<"a", "l", "l">>
    THEN <<SlotOf(<<"-", "owned_trx">>)>>
    ELSE <<>>

\* the step of the worker evaluated get_scope on the label of a request
ScopeStep(w) == wlabel[w] = <<>> /\ wlabel'[w] # <<>>

\* C16: get_scope maps "ownership", "transaction" and "all", in any casing, to
\* the indexes 0, 1 and 2 the detection run writes, and for every other label
\* the request ends with the not-found exception without a query having run:
\* graph, summary record and projections are unchanged.
C16_ScopeLabelsMapOrAreRejected ==
    [][\A w \in Workers :
          ScopeStep(w) =>
              /\ wscope'[w] = SlotOfLabel(wlabel'[w][1])
              /\ SlotOfLabel(wlabel'[w][1]) = <<>> =>
                    /\ wpc'[w] = "returned"
                    /\ werr'[w] = "notexists"
                    /\ UNCHANGED <<graphVars, community_info, directory>>
              /\ SlotOfLabel(wlabel'[w][1]) # <<>> => werr'[w] = "none"]_vars

\* a request with a label that names no scope was rejected
C16_Witness ==
    \E w \in Workers :
        /\ wlabel[w] = << <<"o", "w", "n", "e", "r">> >>
        /\ wscope[w] = <<>>
        /\ wpc[w] = "returned"
        /\ werr[w] = "notexists"

(***************************************************************************)
(* Properties of sales with missing or malformed payment data.             *)
(***************************************************************************)
\* the event is a sale whose payment is absent, null or lacks a field
PaymentUnusable(data) ==
    /\ data.event_type = "sale"
    /\ \/ "payment" \notin DOMAIN data
       \/ data.payment = <<>>
       \/ ~(PaymentKeys \subseteq DOMAIN data.payment[1])

\* a TRANSACTED relationship of the event that carries the sentinel values
SentinelEdge(t, data) ==
    /\ t.transaction_hash = data.transaction
    /\ t.identifier = data.nft.identifier
    /\ t.transaction_value = 0
    /\ t.transaction_token_symbol = "unknown"
    /\ t.transaction_token_decimals = "unknown"
    /\ t.transaction_token = "unknown"

\* the receiver of the event holds the NFT
OwnedByReceiver(ow, accs, data) ==
    \E e \in ow :
        /\ accs[e.account].address = data.to_address
        /\ e.nft \in NftNodes(nfts, data.nft.identifier, data.nft.collection)
        /\ e.currently_owned

\* C22: for a sale whose payment is null, absent or lacks a field,
\* insert_new_trx_data returns without an exception, has made the receiver the
\* holder and has appended one TRANSACTED relationship with the sentinel values.
C22_UnusablePaymentGetsSentinels ==
    [][(inserts' = inserts + 1 /\ PaymentUnusable(lastEv'[1])) =>
          /\ lastExc' = "none"
          /\ OwnedByReceiver(owned', accounts', lastEv'[1])
          /\ \E t \in BagToSet(transacted') :
                /\ SentinelEdge(t, lastEv'[1])
                /\ CopiesIn(t, transacted') = CopiesIn(t, transacted) + 1]_vars

(***************************************************************************)
(* Properties across run_update invocations: stale entities, termination   *)
(* of the cursor walk, and events against the synchronization mark.        *)
(***************************************************************************)
\* the events the feed holds for the identifier
FeedEvents(i) ==
    UNION {{feed[i][j][n] : n \in DOMAIN feed[i][j]} : j \in DOMAIN feed[i]}

\* every event of the feed has a usable payment, and the NFT nodes are stored
\* under the name run_update is called with
PlainFeed ==
    /\ \A i \in Identifiers : \A e \in FeedEvents(i) : ~PaymentRaises(e)
    /\ \A n \in DOMAIN nfts : nfts[n].collection_name = collection_name

\* position k of ids_list was due in the first run and that run left it stale
LeftStale(k) == ids_list[k].updated_at = Now0 - 2 * 86400

\* C25: an entity that a run left stale is healed by the next run in which the
\* feed answers every request: when that run has returned, the entity's events
\* are applied and its updated_at is that run's T, whatever the other entities
\* of the collection return.
C25_StaleEntityIsHealedByNextRun ==
    (/\ runs = MaxRuns
     /\ pc = "done"
     /\ PlainFeed
     /\ \A c \in calls : c.outcome = "ok")
        => \A k \in DOMAIN ids_list :
              LeftStale(k) =>
                  /\ \A e \in FeedEvents(ids_list[k].id) : EventApplied(e)
                  /\ StoredUpdatedAt(k) = T

\* C27: the cursor walk of every due entity terminates: a run that has entered
\* the loop over the entities reaches the final step of run_update, also when a
\* page request keeps failing.
C27_WalkTerminates == (pc = "for") ~> (pc = "end")

\* C28: an NFT whose updated_at was advanced by a run has had every event the
\* feed holds for it applied to the graph (events whose insert cannot return are
\* left aside).
C28_MarkedOnlyWhenAllEventsApplied ==
    \A n \in DOMAIN nfts :
        nfts[n].updated_at \notin SeedUpdatedAt =>
            \A e \in FeedEvents(nfts[n].identifier) :
                PaymentRaises(e) \/ EventApplied(e)

(***************************************************************************)
(* Properties of the cache invalidation at the end of an operation.        *)
(***************************************************************************)
\* C26: cache invalidation is best-effort: a detection run that has made all its
\* graph writes returns the success result, and a run_update that has finished
\* its ingestion returns normally, also when delete_cache_keys fails.
C26_InvalidationIsBestEffort ==
    [][/\ \A w \in Workers :
            (wop[w].kind = "detection" /\ wpc[w] = "finish" /\ wpc'[w] = "returned")
                => ReturnValue(w)' = "Update Completed"
       /\ (pc = "end" /\ pc' # "end") => pc' = "done"]_vars

(***************************************************************************)
(* Properties of operations on different projection names.                 *)
(***************************************************************************)
\* the worker took the step
Stepped(w) == wpc'[w] # wpc[w] \/ todrop'[w] # todrop[w]

\* the name is one of the projection names of the worker's operation
UsesName(w, name) == \E k \in DOMAIN OpNames(wop[w]) : OpNames(wop[w])[k] = name

\* the projection was created by an operation that has not finished with it
InUse(g) == g.creator # <<>> /\ wpc[g.creator[1]] # "returned"

\* C29: operations on different projection names do not interfere: a projection
\* whose operation is between creating it and finishing its use of it is
\* dropped only by that operation or by an operation that uses the same name.
C29_DifferentNamesDoNotInterfere ==
    [][\A g \in directory :
          (InUse(g) /\ ~GdsExists(directory', g.name)) =>
              \E w \in Workers :
                  /\ Stepped(w)
                  /\ g.creator = <<w>> \/ UsesName(w, g.name)]_vars

(***************************************************************************)
(* Properties of the scheduler and the stored frequencies.                 *)
(***************************************************************************)
\* C21: an operation given a collection that is not tracked reports the
\* does-not-exist condition and substitutes no default: a get_update_frequency
\* request for such a name ends with the not-found exception and is not
\* answered with a frequency.
C21_UntrackedCollectionIsReported ==
    \A k \in DOMAIN lastFreq :
        lastFreq[k].collection_name \notin (TrackedCollections \cup {"complete"})
            => /\ lastFreq[k].exception \in {"NotExistsException", "db"}
               /\ lastFreq[k].reply = <<>>

\* the jobs of the store that call func with the collection as last argument
JobsOf(js, func, c) ==
    {k \in DOMAIN js : js[k].func = func /\ js[k].args[Len(js[k].args)] = <<c>>}

\* the step is a completed call of start_scheduler
Armed == ~running /\ running'

\* C23: after start_scheduler there is, for each tracked collection, exactly one
\* ingestion trigger and exactly one detection trigger, each with the interval
\* that is the collection's frequency stored in the graph at that time and each
\* with the collection as argument.
C23_OneTriggerPairPerCollection ==
    [][Armed =>
          \A c \in TrackedCollections :
              \A func \in {"run_update", "run_community_detection"} :
                  /\ Cardinality(JobsOf(jobs', func, c)) = 1
                  /\ \A k \in JobsOf(jobs', func, c) :
                        /\ jobs'[k].next_run_time = now + jobs'[k].seconds
                        /\ get_processed_collection_name(c) \in DOMAIN update_info
                              => jobs'[k].seconds
                                    = update_info[get_processed_collection_name(c)]]_vars

\* the scheduler runs with the two tracked collections armed at different intervals
C23_Witness ==
    /\ running
    /\ \E k \in JobsOf(jobs, "run_update", ApeSlug), m \in JobsOf(jobs, "run_update", DegodsSlug) :
          /\ jobs[k].seconds \in Frequencies
          /\ jobs[m].seconds \in Frequencies
          /\ jobs[k].seconds # jobs[m].seconds

\* the step is a set_update_frequency call that changed a stored frequency
FrequencyChanged == update_info' # update_info

\* C24: set_update_frequency changes only the stored frequency: the armed
\* triggers keep their intervals and next-fire times, and so does everything
\* else; a trigger armed later carries the value stored when it is armed.
C24_SetFrequencyChangesOnlyStoredValue ==
    [][/\ FrequencyChanged =>
             /\ jobs' = jobs
             /\ UNCHANGED <<running, lastFreq, starts, now, restVars>>
       /\ Armed =>
             \A k \in DOMAIN jobs' :
                 jobs'[k].seconds \in
                     {get_update_frequency(update_info, c) : c \in TrackedCollections}]_vars

\* a trigger is armed with an interval that is no longer the stored frequency of
\* its collection
C24_Witness ==
    /\ running
    /\ \E k \in JobsOf(jobs, "run_update", ApeSlug) :
          /\ "boredapeyachtclub" \in DOMAIN update_info
          /\ jobs[k].seconds # update_info["boredapeyachtclub"]

(***************************************************************************)
(* Properties of overlapping run_update invocations.                       *)
(***************************************************************************)
\* C30: the stored updated_at of an NFT never decreases, whatever the
\* interleaving of the run_update invocations for its collection, including two
\* invocations that overlap with start times T1 < T2.
C30_UpdatedAtNeverDecreases ==
    [][\A n \in DOMAIN nfts : nfts'[n].updated_at >= nfts[n].updated_at]_vars

=============================================================================
